---- MODULE Spec2Model ----
(***************************************************************************)
(* Signing and verification core of the Filecoin signing library           *)
(* (signer/src/lib.rs): transaction signing and verification under the     *)
(* secp256k1 and BLS schemes, payment-channel vouchers, the parameter      *)
(* dispatcher and the aggregate verifier.                                  *)
(*                                                                         *)
(* The cryptographic primitives are external crates.  They are modelled    *)
(* symbolically: a hash is its pre-image, a byte of a key, of an address   *)
(* payload or of a signature names the value it was serialized from and    *)
(* carries the xor mask applied to it since (x = 0: intact).  The outcome  *)
(* of a primitive on a value nobody produced honestly is an input of the   *)
(* operation (Oracle): it is rejected, or it decodes to a foreign value.   *)
(***************************************************************************)
EXTENDS Integers, Sequences, FiniteSets, TLC

VARIABLES
    message,        \* the unsigned message given to transaction_sign_raw
    private_key,    \* the private key given to the signing operations
    signature,      \* the Signature handed to verify_signature
    cbor,           \* the serialized message handed to verify_signature
    tamper,         \* what was altered between signing and verification
    params_b64_string,  \* the encoded parameters given to the parameter dispatcher
    actor_type,     \* its actor_type (deserialize_params) or code_cid (constructor)
    method,         \* its method number
    voucher,        \* the base64 text of the voucher being built, signed, verified
    voucher_args,   \* the arguments create_voucher was given
    address_signer, \* the signer address given to verify_voucher_signature
    signings,       \* number of sign_voucher calls made on the voucher
    cbor_messages,  \* the serialized messages given to verify_aggregated_signature
    pks,            \* its public keys, extracted from the messages
    signing_bytes,  \* its signing bytes, extracted from the messages
    hashes,         \* the output slots of its parallel hashing
    finished,       \* the hashing workers that completed, in completion order
    result,         \* the Result of the last operation
    pc              \* position of the caller in its call chain

signVars == <<message, signature, cbor, tamper>>
paramVars == <<params_b64_string, actor_type, method>>
voucherVars == <<voucher, voucher_args, address_signer, signings>>
aggVars == <<cbor_messages, pks, signing_bytes, hashes, finished>>
vars == <<signVars, paramVars, voucherVars, aggVars, private_key, result, pc>>

----------------------------------------------------------------------------
(* Bounds of the model *)

NumKeys == 2
MaxNonce == 1

(* Program constants *)

SIGNATURE_SIZE == 64
SIGNATURE_RECOVERY_SIZE == 65
BLS_SIGNATURE_SIZE == 96
SECP_PAYLOAD_LEN == 20
BLS_PAYLOAD_LEN == 48

Keys == 1..NumKeys
Networks == {"Mainnet", "Testnet"}
FlipMasks == {1, 128}
Oracle == {"reject", "foreign"}

----------------------------------------------------------------------------
(* Result<T, SignerError>, and the abort of a call *)

Ok(v) == [tag |-> "Ok", val |-> v, err |-> ""]
Err(e) == [tag |-> "Err", val |-> FALSE, err |-> e]
Panic(e) == [tag |-> "Panic", val |-> FALSE, err |-> e]
IsOk(r) == r.tag = "Ok"
IsErr(r) == r.tag = "Err"
IsPanic(r) == r.tag = "Panic"
Idle == [tag |-> "Idle", val |-> FALSE, err |-> ""]

----------------------------------------------------------------------------
(* Bytes *)

Byte(kind, a, b) == [of |-> <<kind, a, b>>, x |-> 0]
Fill(n, byte) == [i \in 1..n |-> byte]
Flip(bytes, i, m) == [bytes EXCEPT ![i] = [@ EXCEPT !.x = m]]
Intact(bytes) == \A i \in 1..Len(bytes) : bytes[i].x = 0 /\ bytes[i].of = bytes[1].of
KindOf(bytes) == bytes[1].of[1]

----------------------------------------------------------------------------
(* Hashing.  A hash is modelled by its pre-image: equal digests have equal *)
(* inputs.                                                                 *)

blake2b_256(bytes) == [blake2b |-> bytes]

----------------------------------------------------------------------------
(* Addresses (fvm_shared::address).  The textual form carries the network  *)
(* prefix, the binary form (in CBOR) does not.                             *)

set_network(address, network) == [address EXCEPT !.network = network]
new_secp256k1(pubkey) ==
    [network |-> "Testnet", protocol |-> "Secp256k1",
     payload |-> Fill(SECP_PAYLOAD_LEN, Byte("blake2b_160", pubkey.k, 0))]
new_bls(pubkey_bytes) ==
    [network |-> "Testnet", protocol |-> "BLS", payload |-> pubkey_bytes]
new_id(id) ==
    [network |-> "Testnet", protocol |-> "ID", payload |-> <<Byte("id", id, 0)>>]
new_actor(id) ==
    [network |-> "Testnet", protocol |-> "Actor",
     payload |-> Fill(SECP_PAYLOAD_LEN, Byte("actor", id, 0))]
to_string(address) ==
    [prefix |-> IF address.network = "Mainnet" THEN "f" ELSE "t",
     protocol |-> address.protocol, payload |-> address.payload]
to_bytes(address) == [protocol |-> address.protocol, payload |-> address.payload]
PayloadLenOk(protocol, payload) ==
    CASE protocol = "Secp256k1" -> Len(payload) = SECP_PAYLOAD_LEN
      [] protocol = "BLS" -> Len(payload) = BLS_PAYLOAD_LEN
      [] protocol = "ID" -> Len(payload) = 1
      [] protocol = "Actor" -> Len(payload) = SECP_PAYLOAD_LEN
      [] OTHER -> FALSE
from_str(string) ==
    IF string.prefix \in {"f", "t"} /\ PayloadLenOk(string.protocol, string.payload)
    THEN Ok([network |-> IF string.prefix = "f" THEN "Mainnet" ELSE "Testnet",
             protocol |-> string.protocol, payload |-> string.payload])
    ELSE Err("InvalidAddress")
from_bytes(b) ==
    IF PayloadLenOk(b.protocol, b.payload)
    THEN Ok([network |-> "Testnet", protocol |-> b.protocol, payload |-> b.payload])
    ELSE Err("InvalidPayload")

----------------------------------------------------------------------------
(* libsecp256k1 *)

SecretKeyParse(key) == IF key \in Keys THEN Ok(key) ELSE Err("InvalidSecretKey")
SecpPublicKey(k) == [curve |-> "secp256k1", k |-> k]
ForeignSecpKey == [curve |-> "secp256k1", k |-> 0]
RecoveryIdOf(k) == k % 2
\* libsecp256k1::sign: the (R, S) pair serialized, and the recovery id
SecpSignRS(digest, k) == Fill(SIGNATURE_SIZE, Byte("rs", digest, k))
SecpSignRecId(digest, k) == Byte("v", RecoveryIdOf(k), 0)
HonestRS(rs, digest) ==
    /\ Len(rs) = SIGNATURE_SIZE
    /\ Intact(rs)
    /\ KindOf(rs) = "rs"
    /\ rs[1].of[2] = digest
\* RecoveryId::parse: a byte below 4.  An intact id xor-ed with m is below 4
\* exactly when m is.
RecoveryIdParse(byte, o) ==
    IF byte.of[1] = "v"
    THEN IF byte.x < 4 THEN Ok(byte) ELSE Err("InvalidRecoveryId")
    ELSE IF o = "reject" THEN Err("InvalidRecoveryId") ELSE Ok(byte)
\* libsecp256k1::recover: the key that signed, for the signature that sign
\* produced for this digest; the same signature with another digest recovers
\* a key nobody holds (its R is a point of the curve, so recovery succeeds);
\* any other bytes recover a key nobody holds, or no key.
IntactRS(rs) == Len(rs) = SIGNATURE_SIZE /\ Intact(rs) /\ KindOf(rs) = "rs"
SecpRecover(digest, rs, recid, o) ==
    IF /\ IntactRS(rs)
       /\ recid.of[1] = "v" /\ recid.x = 0
       /\ recid.of[2] = RecoveryIdOf(rs[1].of[3])
    THEN IF HonestRS(rs, digest) THEN Ok(SecpPublicKey(rs[1].of[3]))
         ELSE Ok(ForeignSecpKey)
    ELSE IF o = "reject" THEN Err("InvalidSignature") ELSE Ok(ForeignSecpKey)
SecpVerify(digest, rs, pubkey) ==
    IF HonestRS(rs, digest) THEN pubkey.k \in {rs[1].of[3], 0} ELSE pubkey.k = 0

----------------------------------------------------------------------------
(* bls_signatures *)

BLSPrivateKeyFromBytes(key) == IF key \in Keys THEN Ok(key) ELSE Err("BLSInvalidKey")
BLSPublicKey(k) == [curve |-> "bls12_381", k |-> k]
BLSPublicKeyBytes(k) == Fill(BLS_PAYLOAD_LEN, Byte("g1", k, 0))
BLSPublicKeyFromBytes(bytes, o) ==
    IF Len(bytes) # BLS_PAYLOAD_LEN THEN Err("BLSSizeMismatch")
    ELSE IF Intact(bytes) /\ KindOf(bytes) = "g1" THEN Ok(BLSPublicKey(bytes[1].of[2]))
    ELSE IF o = "reject" THEN Err("BLSGroupDecoding") ELSE Ok(BLSPublicKey(0))
BLSSign(k, msg) == Fill(BLS_SIGNATURE_SIZE, Byte("g2", msg, k))
BLSSignatureFromBytes(bytes, o) ==
    IF Len(bytes) # BLS_SIGNATURE_SIZE THEN Err("BLSSizeMismatch")
    ELSE IF Intact(bytes) /\ KindOf(bytes) = "g2"
         THEN Ok([msg |-> bytes[1].of[2], k |-> bytes[1].of[3]])
    ELSE IF o = "reject" THEN Err("BLSGroupDecoding")
    ELSE Ok([msg |-> bytes[1].of[2], k |-> 0])
BLSVerify(pubkey, sig, msg) ==
    /\ pubkey.k # 0
    /\ sig.k = pubkey.k
    /\ sig.msg = msg

----------------------------------------------------------------------------
(* Messages and their canonical encoding *)

marshal_cbor(msg) == [from |-> to_bytes(msg.from), sequence |-> msg.sequence]
to_signing_bytes(msg) == [cid |-> blake2b_256(marshal_cbor(msg))]
get_digest(cbor_bytes) == blake2b_256([cid |-> blake2b_256(cbor_bytes)])
transaction_serialize(msg) == Ok(marshal_cbor(msg))
transaction_parse(cbor_bytes, testnet) ==
    IF cbor_bytes.sequence < 0 THEN Err("CborDecode")
    ELSE LET a == from_bytes(cbor_bytes.from)
         IN  IF IsErr(a) THEN a
             ELSE Ok([from |-> set_network(a.val, IF testnet THEN "Testnet" ELSE "Mainnet"),
                      sequence |-> cbor_bytes.sequence])

----------------------------------------------------------------------------
(* Signing dispatcher *)

new_signature(sig_type, bytes) == [sig_type |-> sig_type, bytes |-> bytes]
NoSignature == new_signature("None", <<>>)

SignDigestOfCbor(msg) == blake2b_256(marshal_cbor(msg))
SignDigest(msg) == blake2b_256(to_signing_bytes(msg))

transaction_sign_secp56k1_raw(msg, key) ==
    LET secret_key == SecretKeyParse(key)
        message_digest == SignDigest(msg)
    IN  IF IsErr(secret_key) THEN secret_key
        ELSE Ok(new_signature("Secp256k1",
                    SecpSignRS(message_digest, secret_key.val)
                        \o <<SecpSignRecId(message_digest, secret_key.val)>>))

transaction_sign_bls_raw(msg, key) ==
    LET sk == BLSPrivateKeyFromBytes(key)
    IN  IF IsErr(sk) THEN sk
        ELSE Ok(new_signature("BLS", BLSSign(sk.val, to_signing_bytes(msg))))

SignRawDefaultSecp(msg, key) ==
    CASE msg.from.protocol = "BLS" -> transaction_sign_bls_raw(msg, key)
      [] OTHER -> transaction_sign_secp56k1_raw(msg, key)

transaction_sign_raw(msg, key) ==
    CASE msg.from.protocol = "Secp256k1" -> transaction_sign_secp56k1_raw(msg, key)
      [] msg.from.protocol = "BLS" -> transaction_sign_bls_raw(msg, key)
      [] OTHER -> Err("Unknown signing protocol")

SignedMessage(msg, sig) == [message |-> msg, signature |-> sig]

transaction_sign(msg, key) ==
    LET sig == transaction_sign_raw(msg, key)
    IN  IF IsErr(sig) THEN sig ELSE Ok(SignedMessage(msg, sig.val))

----------------------------------------------------------------------------
(* Verification dispatcher *)

\* signature.bytes[..64]: aborts on a buffer shorter than 64 bytes
SliceRS(bytes) ==
    IF Len(bytes) < SIGNATURE_SIZE THEN Panic("range end index 64 out of range")
    ELSE Ok(SubSeq(bytes, 1, SIGNATURE_SIZE))
\* signature.bytes[64]: aborts on a buffer shorter than 65 bytes
IndexRecId(bytes) ==
    IF Len(bytes) < SIGNATURE_RECOVERY_SIZE THEN Panic("index out of bounds")
    ELSE Ok(bytes[SIGNATURE_RECOVERY_SIZE])

VerifyNetworkIsTestnet == TRUE

\* the comparison of the two textual addresses, and the validity check that
\* follows it only when they are equal
VerifyWithoutMatch(tx_from, from, blob_to_sign, signature_rs, public_key) ==
    Ok(SecpVerify(blob_to_sign, signature_rs, public_key))
MismatchIsError(tx_from, from, blob_to_sign, signature_rs, public_key) ==
    IF to_string(tx_from) # to_string(from)
    THEN Err("Address recovered doesn't match address given")
    ELSE Ok(SecpVerify(blob_to_sign, signature_rs, public_key))
MatchThenVerify(tx_from, from, blob_to_sign, signature_rs, public_key) ==
    IF to_string(tx_from) # to_string(from) THEN Ok(FALSE)
    ELSE Ok(SecpVerify(blob_to_sign, signature_rs, public_key))

verify_secp256k1_signature(sig, cbor_bytes, o) ==
    LET rs == SliceRS(sig.bytes)
    IN  IF ~IsOk(rs) THEN rs ELSE
    LET v == IndexRecId(sig.bytes)
    IN  IF ~IsOk(v) THEN v ELSE
    LET recovery_id == RecoveryIdParse(v.val, o)
    IN  IF IsErr(recovery_id) THEN recovery_id ELSE
    LET tx == transaction_parse(cbor_bytes, VerifyNetworkIsTestnet)
    IN  IF IsErr(tx) THEN tx ELSE
    LET blob_to_sign == get_digest(cbor_bytes)
        public_key == SecpRecover(blob_to_sign, rs.val, recovery_id.val, o)
    IN  IF IsErr(public_key) THEN public_key ELSE
    LET from == set_network(new_secp256k1(public_key.val),
                            IF VerifyNetworkIsTestnet THEN "Testnet" ELSE "Mainnet")
    IN  MatchThenVerify(tx.val.from, from, blob_to_sign, rs.val, public_key.val)

verify_bls_signature(sig, cbor_bytes, o) ==
    LET msg == transaction_parse(cbor_bytes, TRUE)
    IN  IF IsErr(msg) THEN msg ELSE
    LET pk == BLSPublicKeyFromBytes(msg.val.from.payload, o)
    IN  IF IsErr(pk) THEN pk ELSE
    LET bls_sig == BLSSignatureFromBytes(sig.bytes, o)
    IN  IF IsErr(bls_sig) THEN bls_sig ELSE
        Ok(BLSVerify(pk.val, bls_sig.val, to_signing_bytes(msg.val)))

VerifyBySenderProtocol(sig, cbor_bytes, o) ==
    IF cbor_bytes.from.protocol = "Secp256k1"
    THEN verify_secp256k1_signature(sig, cbor_bytes, o)
    ELSE verify_bls_signature(sig, cbor_bytes, o)

verify_signature(sig, cbor_bytes, o) ==
    CASE sig.sig_type = "Secp256k1" -> verify_secp256k1_signature(sig, cbor_bytes, o)
      [] sig.sig_type = "BLS" -> verify_bls_signature(sig, cbor_bytes, o)

----------------------------------------------------------------------------
(* Key recovery: the address a private key stands for *)

key_recover(key, testnet) ==
    LET secret_key == SecretKeyParse(key)
    IN  IF IsErr(secret_key) THEN secret_key
        ELSE Ok(set_network(new_secp256k1(SecpPublicKey(secret_key.val)),
                            IF testnet THEN "Testnet" ELSE "Mainnet"))

key_recover_bls(key, testnet) ==
    LET sk == BLSPrivateKeyFromBytes(key)
    IN  IF IsErr(sk) THEN sk
        ELSE Ok(set_network(new_bls(BLSPublicKeyBytes(sk.val)),
                            IF testnet THEN "Testnet" ELSE "Mainnet"))

----------------------------------------------------------------------------
(* The caller of the signing and verification dispatchers: it signs a      *)
(* message, may alter the signature or the serialized message, and         *)
(* verifies.                                                               *)

FromAddresses ==
    {key_recover(k, t).val : k \in Keys, t \in BOOLEAN}
        \cup {key_recover_bls(k, t).val : k \in Keys, t \in BOOLEAN}
        \cup {set_network(new_id(1), n) : n \in Networks}
        \cup {set_network(new_actor(1), n) : n \in Networks}
\* the keys of the model, and a byte string that is no key of either scheme
PrivateKeys == Keys \cup {0}
Messages == [from : FromAddresses, sequence : 0..MaxNonce]
EmptyCbor == [from |-> [protocol |-> "None", payload |-> <<>>], sequence |-> -1]
PadByte == Byte("pad", 0, 0)
Resize(bytes, n) ==
    IF n <= Len(bytes) THEN SubSeq(bytes, 1, n)
    ELSE bytes \o Fill(n - Len(bytes), PadByte)

IdleSign ==
    /\ message = [from |-> set_network(new_id(0), "Testnet"), sequence |-> 0]
    /\ signature = NoSignature
    /\ cbor = EmptyCbor
    /\ tamper = "none"

IdleParams ==
    /\ params_b64_string = [valid |-> FALSE, data |-> <<>>]
    /\ actor_type = ""
    /\ method = 0

VoucherArgs(a, tmin, tmax, amount, lane, nonce, height) ==
    [payment_channel_address |-> a, time_lock_min |-> tmin, time_lock_max |-> tmax,
     amount |-> amount, lane |-> lane, nonce |-> nonce, min_settle_height |-> height]
NoVoucherArgs ==
    VoucherArgs([prefix |-> "", protocol |-> "", payload |-> <<>>], 0, 0, <<>>, 0, 0, 0)

IdleVoucher ==
    /\ voucher = [valid |-> FALSE, data |-> <<>>]
    /\ voucher_args = NoVoucherArgs
    /\ address_signer = [prefix |-> "", protocol |-> "", payload |-> <<>>]
    /\ signings = 0

IdleAgg ==
    /\ cbor_messages = <<>>
    /\ pks = <<>>
    /\ signing_bytes = <<>>
    /\ hashes = <<>>
    /\ finished = <<>>

InitSign ==
    /\ message \in Messages
    /\ private_key \in PrivateKeys
    /\ signature = NoSignature
    /\ cbor = EmptyCbor
    /\ tamper = "none"
    /\ IdleParams
    /\ IdleVoucher
    /\ IdleAgg
    /\ result = Idle
    /\ pc = "start"

SignTransaction ==
    /\ pc = "start"
    /\ LET signed == transaction_sign_raw(message, private_key)
       IN  IF IsOk(signed)
           THEN /\ signature' = signed.val
                /\ cbor' = transaction_serialize(message).val
                /\ result' = Idle
                /\ pc' = "signed"
           ELSE /\ result' = signed
                /\ pc' = "sign_failed"
                /\ UNCHANGED <<signature, cbor>>
    /\ UNCHANGED <<message, private_key, tamper, paramVars, voucherVars, aggVars>>

TransactionSign ==
    /\ pc = "start"
    /\ result' = transaction_sign(message, private_key)
    /\ pc' = "sign_returned"
    /\ UNCHANGED <<signVars, private_key, paramVars, voucherVars, aggVars>>

FlipSignatureByte ==
    /\ pc = "signed"
    /\ \E i \in 1..Len(signature.bytes), m \in FlipMasks :
          signature' = [signature EXCEPT !.bytes = Flip(@, i, m)]
    /\ tamper' = "signature"
    /\ pc' = "tampered"
    /\ UNCHANGED <<message, private_key, cbor, result, paramVars, voucherVars, aggVars>>

FlipFromByte ==
    /\ pc = "signed"
    /\ \E i \in 1..Len(cbor.from.payload), m \in FlipMasks :
          cbor' = [cbor EXCEPT !.from.payload = Flip(@, i, m)]
    /\ tamper' = "from"
    /\ pc' = "tampered"
    /\ UNCHANGED <<message, private_key, signature, result, paramVars, voucherVars, aggVars>>

ResizeSignature ==
    /\ pc = "signed"
    /\ \E n \in {0, Len(signature.bytes) - 2, Len(signature.bytes) - 1,
                 Len(signature.bytes) + 1} :
          signature' = [signature EXCEPT !.bytes = Resize(@, n)]
    /\ tamper' = "resize"
    /\ pc' = "tampered"
    /\ UNCHANGED <<message, private_key, cbor, result, paramVars, voucherVars, aggVars>>

\* the signature is presented with the serialization of another message
SwapMessage ==
    /\ pc = "signed"
    /\ \E other \in Messages :
          /\ transaction_serialize(other) # transaction_serialize(message)
          /\ cbor' = transaction_serialize(other).val
    /\ tamper' = "message"
    /\ pc' = "tampered"
    /\ UNCHANGED <<message, private_key, signature, result, paramVars, voucherVars, aggVars>>

\* the signature is presented under the other scheme tag
RetagSignature ==
    /\ pc = "signed"
    /\ signature' = [signature EXCEPT
                        !.sig_type = IF @ = "Secp256k1" THEN "BLS" ELSE "Secp256k1"]
    /\ tamper' = "tag"
    /\ pc' = "tampered"
    /\ UNCHANGED <<message, private_key, cbor, result, paramVars, voucherVars, aggVars>>

VerifySignature ==
    /\ pc \in {"signed", "tampered"}
    /\ \E o \in Oracle : result' = verify_signature(signature, cbor, o)
    /\ pc' = "verified"
    /\ UNCHANGED <<message, private_key, signature, cbor, tamper, paramVars, voucherVars, aggVars>>

NextSign ==
    \/ SignTransaction
    \/ TransactionSign
    \/ FlipSignatureByte
    \/ FlipFromByte
    \/ ResizeSignature
    \/ SwapMessage
    \/ RetagSignature
    \/ VerifySignature

SpecSign == InitSign /\ [][NextSign]_vars

----------------------------------------------------------------------------
(* Claims on the signing and verification dispatchers (SpecSign) *)

IsOkTrue(r) == IsOk(r) /\ r.val = TRUE
IsOkFalse(r) == IsOk(r) /\ r.val = FALSE

\* the private key's derived address, under the scheme and on the network of
\* the message's sender, is the sender
KeyMatchesFrom ==
    \/ /\ message.from.protocol = "Secp256k1"
       /\ key_recover(private_key, message.from.network = "Testnet") = Ok(message.from)
    \/ /\ message.from.protocol = "BLS"
       /\ key_recover_bls(private_key, message.from.network = "Testnet") = Ok(message.from)

\* C1: for a message whose sender is a secp256k1 or BLS address, on either
\* network, and a private key whose derived address is that sender, verifying
\* the signature transaction_sign_raw returns against the serialized message
\* returns Ok(true).
C1_SignVerifyAgreement ==
    (pc = "verified" /\ tamper = "none" /\ KeyMatchesFrom) => IsOkTrue(result)

C1_Witness ==
    /\ pc = "verified" /\ tamper = "none" /\ KeyMatchesFrom
    /\ message.from.protocol = "Secp256k1"
    /\ message.from.network = "Mainnet"
    /\ IsOkTrue(result)

\* the signature and serialized message before they were altered verify
UntamperedVerifies ==
    LET signed == transaction_sign_raw(message, private_key)
    IN  /\ IsOk(signed)
        /\ \A o \in Oracle :
              IsOkTrue(verify_signature(signed.val, transaction_serialize(message).val, o))

\* C2 as stated: after one byte of a verifying signature, or of the sender's
\* address payload, is flipped, verify_signature returns false or a mismatch
\* error.  verify_signature has no mismatch error: its recovery-and-match
\* answers false.
C2_AsStated ==
    (pc = "verified" /\ tamper \in {"signature", "from"} /\ UntamperedVerifies)
        => (IsOkFalse(result) \/ (IsErr(result) /\ result.err = "AddressMismatch"))

\* C2 amended: after one byte of a verifying signature, or of the sender's
\* address payload, is flipped, verify_signature returns false or an error of
\* the primitive that decodes the altered value; it never returns true.
C2_TamperRejected ==
    (pc = "verified" /\ tamper \in {"signature", "from"} /\ UntamperedVerifies)
        => \/ IsOkFalse(result)
           \/ /\ IsErr(result)
              /\ result.err \in {"InvalidRecoveryId", "InvalidSignature", "BLSGroupDecoding"}

C2_Witness ==
    /\ pc = "verified" /\ tamper = "from" /\ UntamperedVerifies
    /\ signature.sig_type = "Secp256k1"
    /\ IsOkFalse(result)

\* C3: verify_signature returns a boolean or an error for every input, and a
\* signature buffer of the wrong size is reported as an error.
C3_NoPanic ==
    pc = "verified" =>
        /\ IsOk(result) \/ IsErr(result)
        /\ tamper = "resize" => IsErr(result)

\* C11: transaction_sign_raw dispatches on the protocol of the sender only.
\* With a private key of the scheme, a secp256k1 sender gives a Secp256k1
\* signature of exactly 65 bytes (R, S, then the recovery byte) and a BLS
\* sender gives a BLS signature; any other sender protocol fails with the
\* unknown-signing-protocol error, whatever the key, and no signature is
\* produced.  transaction_sign returns the message it was given, unchanged,
\* with exactly the signature of transaction_sign_raw.
C11_SignDispatch ==
    pc = "sign_returned" =>
        /\ (message.from.protocol = "Secp256k1" /\ private_key \in Keys) =>
              /\ IsOk(result)
              /\ result.val.signature.sig_type = "Secp256k1"
              /\ Len(result.val.signature.bytes) = SIGNATURE_RECOVERY_SIZE
              /\ SubSeq(result.val.signature.bytes, 1, SIGNATURE_SIZE)
                    = SecpSignRS(blake2b_256(to_signing_bytes(message)), private_key)
              /\ KindOf(<<result.val.signature.bytes[SIGNATURE_RECOVERY_SIZE]>>) = "v"
        /\ (message.from.protocol = "BLS" /\ private_key \in Keys) =>
              /\ IsOk(result)
              /\ result.val.signature.sig_type = "BLS"
              /\ result.val.signature.bytes = BLSSign(private_key, to_signing_bytes(message))
        /\ message.from.protocol \notin {"Secp256k1", "BLS"} =>
              /\ IsErr(result)
              /\ result.err = "Unknown signing protocol"
        /\ IsOk(result) =>
              /\ result.val.message = message
              /\ result.val.signature.sig_type = message.from.protocol
              /\ Ok(result.val.signature) = transaction_sign_raw(message, private_key)

C11_Witness ==
    /\ pc = "sign_returned"
    /\ message.from.protocol = "Secp256k1"
    /\ IsOk(result)
    /\ Len(result.val.signature.bytes) = SIGNATURE_RECOVERY_SIZE

C11_WitnessUnsupported ==
    /\ pc = "sign_returned"
    /\ message.from.protocol = "Actor"
    /\ private_key = 0
    /\ IsErr(result)

----------------------------------------------------------------------------
(* Encodings used by the parameter dispatcher.  A base64 string is either  *)
(* the text of some bytes or no base64 text at all.  A CBOR payload is the *)
(* array of the typed items it holds; decoding it as a parameter type      *)
(* succeeds when the items are those of the type's fields, in order.       *)

MaxMethod == 10
MaxThreshold == 2
MaxUnlock == 1

base64_encode(bytes) == [valid |-> TRUE, data |-> bytes]
base64_decode(string) ==
    IF string.valid THEN Ok(string.data) ELSE Err("Base64Decode")

Item(t, v) == [t |-> t, v |-> v]
\* a field of an integer type takes either CBOR integer major type, an
\* unsigned one only the unsigned major type
Accepts(field, item) ==
    \/ field = item
    \/ field = "int" /\ item \in {"uint", "nint"}
    \/ field = "bigint" /\ item = "bytes"
Shape(type) ==
    CASE type = "ExecParams" -> <<"cid", "bytes">>
      [] type = "ProposeParams" -> <<"address", "bigint", "uint", "bytes">>
      [] type = "TxnIDParams" -> <<"int", "bytes">>
      [] type = "AddSignerParams" -> <<"address", "bool">>
      [] type = "RemoveSignerParams" -> <<"address", "bool">>
      [] type = "SwapSignerParams" -> <<"address", "address">>
      [] type = "ChangeNumApprovalsThresholdParams" -> <<"uint">>
      [] type = "LockBalanceParams" -> <<"int", "int", "bigint">>
      [] type = "UpdateChannelStateParams" -> <<"voucher", "bytes">>
      [] type = "MultisigConstructorParams" -> <<"addresses", "uint", "int", "int">>
      [] type = "ConstructorParamsV1" -> <<"addresses", "uint", "int">>
      [] type = "PaychConstructorParams" -> <<"address", "address">>
Decodes(type, bytes) ==
    /\ Len(bytes) = Len(Shape(type))
    /\ \A i \in 1..Len(bytes) : Accepts(Shape(type)[i], bytes[i].t)
deserialize(type, bytes) ==
    IF Decodes(type, bytes)
    THEN Ok([i \in 1..Len(bytes) |-> bytes[i].v])
    ELSE Err("CborDecode")

\* FromPrimitive::from_u64 for the method enumerations of the three actors
MethodInit(n) ==
    CASE n = 1 -> "Constructor" [] n = 2 -> "Exec" [] OTHER -> "None"
MultisigMethod(n) ==
    CASE n = 1 -> "Constructor" [] n = 2 -> "Propose" [] n = 3 -> "Approve"
      [] n = 4 -> "Cancel" [] n = 5 -> "AddSigner" [] n = 6 -> "RemoveSigner"
      [] n = 7 -> "SwapSigner" [] n = 8 -> "ChangeNumApprovalsThreshold"
      [] n = 9 -> "LockBalance" [] OTHER -> "None"
PaychMethod(n) ==
    CASE n = 1 -> "Constructor" [] n = 2 -> "UpdateChannelState"
      [] n = 3 -> "Settle" [] n = 4 -> "Collect" [] OTHER -> "None"

----------------------------------------------------------------------------
(* Parameter dispatcher *)

MessageParams(variant, params) == [variant |-> variant, params |-> params]
\* deserialize::<T>()? followed by Ok(MessageParams::T(params))
DecodeAs(type, serialized_params) ==
    LET params == deserialize(type, serialized_params)
    IN  IF IsErr(params) THEN params ELSE Ok(MessageParams(type, params.val))

InitActorParams(serialized_params, m) ==
    IF MethodInit(m) = "Exec" THEN DecodeAs("ExecParams", serialized_params)
    ELSE Err("Unknown method for init actor.")

MultisigActorParams(serialized_params, m) ==
    CASE MultisigMethod(m) = "Propose" -> DecodeAs("ProposeParams", serialized_params)
      [] MultisigMethod(m) \in {"Approve", "Cancel"} ->
            DecodeAs("TxnIDParams", serialized_params)
      [] MultisigMethod(m) = "AddSigner" -> DecodeAs("AddSignerParams", serialized_params)
      [] MultisigMethod(m) = "RemoveSigner" ->
            DecodeAs("RemoveSignerParams", serialized_params)
      [] MultisigMethod(m) = "SwapSigner" -> DecodeAs("SwapSignerParams", serialized_params)
      [] MultisigMethod(m) = "ChangeNumApprovalsThreshold" ->
            DecodeAs("ChangeNumApprovalsThresholdParams", serialized_params)
      [] MultisigMethod(m) = "LockBalance" ->
            DecodeAs("LockBalanceParams", serialized_params)
      [] OTHER -> Err("Unknown method for multisig actor.")

PaychActorParamsDefaultEmpty(serialized_params, m) ==
    IF PaychMethod(m) = "UpdateChannelState"
    THEN DecodeAs("UpdateChannelStateParams", serialized_params)
    ELSE Ok(MessageParams("MessageParamsSerialized", ""))
PaychActorParamsDecodeAll(serialized_params, m) ==
    CASE PaychMethod(m) = "UpdateChannelState" ->
            DecodeAs("UpdateChannelStateParams", serialized_params)
      [] PaychMethod(m) \in {"Settle", "Collect"} ->
            IF serialized_params = <<>>
            THEN Ok(MessageParams("MessageParamsSerialized", ""))
            ELSE Err("CborDecode")
      [] OTHER -> Err("Unknown method for paymentchannel actor.")
PaychActorParams(serialized_params, m) ==
    CASE PaychMethod(m) = "UpdateChannelState" ->
            DecodeAs("UpdateChannelStateParams", serialized_params)
      [] PaychMethod(m) \in {"Settle", "Collect"} ->
            Ok(MessageParams("MessageParamsSerialized", ""))
      [] OTHER -> Err("Unknown method for paymentchannel actor.")

deserialize_params(b64_string, actor, m) ==
    LET params_decode == base64_decode(b64_string)
    IN  IF IsErr(params_decode) THEN params_decode
        ELSE CASE actor = "init" -> InitActorParams(params_decode.val, m)
               [] actor = "multisig" -> MultisigActorParams(params_decode.val, m)
               [] actor = "paymentchannel" -> PaychActorParams(params_decode.val, m)
               [] OTHER -> Err("Actor type not supported.")

MultisigConstructor(t) ==
    [signers |-> t[1], num_approvals_threshold |-> t[2],
     unlock_duration |-> t[3], start_epoch |-> t[4]]
ConstructorParamsV1(t) ==
    [signers |-> t[1], num_approvals_threshold |-> t[2], unlock_duration |-> t[3]]
MigrateKeepingDuration(deprecated_multisig_params) ==
    [signers |-> deprecated_multisig_params.signers,
     num_approvals_threshold |-> deprecated_multisig_params.num_approvals_threshold,
     unlock_duration |-> deprecated_multisig_params.unlock_duration,
     start_epoch |-> deprecated_multisig_params.unlock_duration]
MigrateConstructorParams(deprecated_multisig_params) ==
    [signers |-> deprecated_multisig_params.signers,
     num_approvals_threshold |-> deprecated_multisig_params.num_approvals_threshold,
     unlock_duration |-> deprecated_multisig_params.unlock_duration,
     start_epoch |-> 0]

deserialize_constructor_params(b64_string, code_cid) ==
    LET params_decode == base64_decode(b64_string)
    IN  IF IsErr(params_decode) THEN params_decode
        ELSE CASE code_cid = "multisig" ->
                    LET params == deserialize("MultisigConstructorParams", params_decode.val)
                    IN  IF IsErr(params) THEN params
                        ELSE Ok(MessageParams("MultisigConstructorParams",
                                              MultisigConstructor(params.val)))
               [] code_cid = "paymentchannel" ->
                    DecodeAs("PaychConstructorParams", params_decode.val)
               [] code_cid = "fil/1/multisig" ->
                    LET deprecated == deserialize("ConstructorParamsV1", params_decode.val)
                    IN  IF IsErr(deprecated) THEN deprecated
                        ELSE Ok(MessageParams("MultisigConstructorParams",
                                    MigrateConstructorParams(ConstructorParamsV1(deprecated.val))))
               [] OTHER -> Err("Code CID not supported.")

----------------------------------------------------------------------------
(* The caller of the parameter dispatcher *)

IntItem(n) == IF n < 0 THEN Item("nint", n) ELSE Item("uint", n)
\* every item's value is a number: an address list is named by its number
SignerLists == {1, 2}
LegacyPayloads ==
    {<<Item("addresses", s), Item("uint", n), IntItem(u)>> :
        s \in SignerLists, n \in 1..MaxThreshold, u \in -1..MaxUnlock}
ConstructorPayloads ==
    {<<Item("addresses", 1), Item("uint", 1), IntItem(u), IntItem(e)>> :
        u \in -1..MaxUnlock, e \in 0..1}
MethodPayloads ==
    { <<>>,
      <<Item("text", 0)>>,
      <<Item("cid", 1), Item("bytes", 0)>>,
      <<Item("address", 1), Item("bytes", 5), Item("uint", 0), Item("bytes", 0)>>,
      <<Item("uint", 1), Item("bytes", 0)>>,
      <<Item("nint", -1), Item("bytes", 0)>>,
      <<Item("address", 1), Item("bool", 1)>>,
      <<Item("address", 1), Item("address", 2)>>,
      <<Item("uint", 2)>>,
      <<Item("uint", 0), Item("uint", 1), Item("bytes", 5)>>,
      <<Item("voucher", 1), Item("bytes", 0)>> }
NotBase64 == [valid |-> FALSE, data |-> <<>>]
ParamStrings ==
    {base64_encode(b) : b \in MethodPayloads \cup LegacyPayloads \cup ConstructorPayloads}
        \cup {NotBase64}
ActorTypes == {"init", "multisig", "paymentchannel", "fil/1/multisig", "account"}

InitParams ==
    /\ params_b64_string \in ParamStrings
    /\ actor_type \in ActorTypes
    /\ method \in 0..MaxMethod
    /\ IdleSign
    /\ IdleVoucher
    /\ IdleAgg
    /\ private_key = 0
    /\ result = Idle
    /\ pc = "start"

DeserializeParams ==
    /\ pc = "start"
    /\ result' = deserialize_params(params_b64_string, actor_type, method)
    /\ pc' = "deserialize_params"
    /\ UNCHANGED <<signVars, paramVars, voucherVars, aggVars, private_key>>

DeserializeConstructorParams ==
    /\ pc = "start"
    /\ result' = deserialize_constructor_params(params_b64_string, actor_type)
    /\ pc' = "deserialize_constructor_params"
    /\ UNCHANGED <<signVars, paramVars, voucherVars, aggVars, private_key>>

NextParams ==
    \/ DeserializeParams
    \/ DeserializeConstructorParams

SpecParams == InitParams /\ [][NextParams]_vars

----------------------------------------------------------------------------
(* Claims on the parameter dispatcher (SpecParams) *)

\* the supported table: the parameter shape documented for (actor, method)
Documented(actor, m) ==
    CASE actor = "init" /\ MethodInit(m) = "Exec" -> "ExecParams"
      [] actor = "multisig" /\ MultisigMethod(m) = "Propose" -> "ProposeParams"
      [] actor = "multisig" /\ MultisigMethod(m) = "Approve" -> "TxnIDParams"
      [] actor = "multisig" /\ MultisigMethod(m) = "Cancel" -> "TxnIDParams"
      [] actor = "multisig" /\ MultisigMethod(m) = "AddSigner" -> "AddSignerParams"
      [] actor = "multisig" /\ MultisigMethod(m) = "RemoveSigner" -> "RemoveSignerParams"
      [] actor = "multisig" /\ MultisigMethod(m) = "SwapSigner" -> "SwapSignerParams"
      [] actor = "multisig" /\ MultisigMethod(m) = "ChangeNumApprovalsThreshold" ->
            "ChangeNumApprovalsThresholdParams"
      [] actor = "multisig" /\ MultisigMethod(m) = "LockBalance" -> "LockBalanceParams"
      [] actor = "paymentchannel" /\ PaychMethod(m) = "UpdateChannelState" ->
            "UpdateChannelStateParams"
      [] actor = "paymentchannel" /\ PaychMethod(m) \in {"Settle", "Collect"} ->
            "MessageParamsSerialized"
      [] OTHER -> "None"
Unrecognized ==
    {"Unknown method for init actor.", "Unknown method for multisig actor.",
     "Unknown method for paymentchannel actor.", "Actor type not supported."}
CodeTags == {"multisig", "paymentchannel", "fil/1/multisig"}
WellFormed(type, string) ==
    /\ string.valid
    /\ type = "MessageParamsSerialized" \/ Decodes(type, string.data)
IsEmptyParams(r) ==
    IsOk(r) /\ r.val.variant = "MessageParamsSerialized" /\ r.val.params = ""

\* what C4 says of the pairs in the table, and of any params value returned
C4_InTable ==
    /\ pc = "deserialize_params" /\ IsOk(result) =>
          /\ Documented(actor_type, method) # "None"
          /\ result.val.variant = Documented(actor_type, method)
    /\ (/\ pc = "deserialize_params"
        /\ Documented(actor_type, method) # "None"
        /\ WellFormed(Documented(actor_type, method), params_b64_string)) =>
          IsOk(result)
    /\ (pc = "deserialize_constructor_params" /\ IsOk(result)) => actor_type \in CodeTags

\* C4 as stated: a params value is returned only for a pair of the table and
\* is then the documented variant; every pair outside the table, and every
\* constructor code tag outside the three known ones, returns the
\* unrecognized error.
C4_AsStated ==
    /\ C4_InTable
    /\ (pc = "deserialize_params" /\ Documented(actor_type, method) = "None") =>
          (IsErr(result) /\ result.err \in Unrecognized)
    /\ (pc = "deserialize_constructor_params" /\ actor_type \notin CodeTags) =>
          (IsErr(result) /\ result.err = "Code CID not supported.")

\* C4 amended: as stated, except that outside the table the unrecognized
\* error is returned when the encoded parameters are base64 text; when they
\* are not, the base64 decoding error is returned, which precedes dispatch.
\* No params value is returned in either case.
C4_DispatchTotality ==
    /\ C4_InTable
    /\ (pc = "deserialize_params" /\ Documented(actor_type, method) = "None") =>
          /\ IsErr(result)
          /\ IF params_b64_string.valid THEN result.err \in Unrecognized
             ELSE result.err = "Base64Decode"
    /\ (pc = "deserialize_constructor_params" /\ actor_type \notin CodeTags) =>
          /\ IsErr(result)
          /\ result.err = IF params_b64_string.valid
                          THEN "Code CID not supported." ELSE "Base64Decode"

C4_Witness ==
    /\ pc = "deserialize_params"
    /\ actor_type = "multisig" /\ MultisigMethod(method) = "Cancel"
    /\ IsOk(result) /\ result.val.variant = "TxnIDParams"

PaychParamless ==
    /\ pc = "deserialize_params"
    /\ actor_type = "paymentchannel"
    /\ PaychMethod(method) \in {"Settle", "Collect"}

\* C5 as stated: for paymentchannel Settle and Collect the empty result is
\* returned whatever the encoded parameters are; no decoding failure of that
\* input makes the call return an error.
C5_AsStated == PaychParamless => IsEmptyParams(result)

\* C5 amended: for paymentchannel Settle and Collect the empty result is
\* returned for every input that is base64 text, whatever bytes it encodes
\* (they are not decoded as parameters); an input that is not base64 text
\* fails with the base64 decoding error.
C5_ParamlessShortCircuit ==
    PaychParamless =>
        IF params_b64_string.valid THEN IsEmptyParams(result)
        ELSE IsErr(result) /\ result.err = "Base64Decode"

C5_Witness ==
    /\ PaychParamless
    /\ params_b64_string = base64_encode(<<Item("text", 0)>>)
    /\ IsEmptyParams(result)

LegacyCall ==
    /\ pc = "deserialize_constructor_params"
    /\ actor_type = "fil/1/multisig"
    /\ WellFormed("ConstructorParamsV1", params_b64_string)

\* C6: a well-formed legacy multisig constructor payload, under the legacy
\* tag, gives a current-shape constructor payload with the legacy payload's
\* signers, approval threshold and unlock duration, and start_epoch 0.
C6_LegacyMigration ==
    LegacyCall =>
        /\ IsOk(result)
        /\ result.val.variant = "MultisigConstructorParams"
        /\ result.val.params.signers = params_b64_string.data[1].v
        /\ result.val.params.num_approvals_threshold = params_b64_string.data[2].v
        /\ result.val.params.unlock_duration = params_b64_string.data[3].v
        /\ result.val.params.start_epoch = 0

C6_Witness ==
    /\ LegacyCall
    /\ params_b64_string.data[3].v = 1
    /\ params_b64_string.data[1].v = 2
    /\ IsOk(result)
    /\ result.val.params.start_epoch = 0
    /\ result.val.params.unlock_duration = 1

----------------------------------------------------------------------------
(* Voucher protocol *)

MaxLane == 1
MaxSignings == 2

\* BigInt::parse_bytes(amount, 10): an optional sign, then decimal digits
Digits == <<"0", "1", "2", "3", "4", "5", "6", "7", "8", "9">>
IsDigit(c) == \E d \in 1..Len(Digits) : Digits[d] = c
DigitValue(c) == (CHOOSE d \in 1..Len(Digits) : Digits[d] = c) - 1
AllDigits(s) == Len(s) > 0 /\ \A i \in 1..Len(s) : IsDigit(s[i])
RECURSIVE DigitsValue(_)
DigitsValue(s) ==
    IF s = <<>> THEN 0
    ELSE 10 * DigitsValue(SubSeq(s, 1, Len(s) - 1)) + DigitValue(s[Len(s)])
parse_bytes(s) ==
    IF s # <<>> /\ s[1] = "-"
    THEN IF AllDigits(Tail(s)) THEN Ok(0 - DigitsValue(Tail(s))) ELSE Err("None")
    ELSE IF s # <<>> /\ s[1] = "+"
    THEN IF AllDigits(Tail(s)) THEN Ok(DigitsValue(Tail(s))) ELSE Err("None")
    ELSE IF AllDigits(s) THEN Ok(DigitsValue(s)) ELSE Err("None")

\* the canonical encoding of a voucher holds its channel address in binary
\* form, without the network
to_vec(v) == [v EXCEPT !.channel_addr = to_bytes(@)]
from_slice(bytes) ==
    LET a == from_bytes(bytes.channel_addr)
    IN  IF IsErr(a) THEN Err("CborDecode")
        ELSE Ok([bytes EXCEPT !.channel_addr = a.val])
SigningBytesWithSignature(v) == to_vec(v)
\* SignedVoucher::signing_bytes: the encoding with the signature cleared
voucher_signing_bytes(v) == to_vec([v EXCEPT !.signature = NoSignature])
get_digest_voucher(svb) == blake2b_256(svb)

create_voucher(payment_channel_address, time_lock_min, time_lock_max, amount_string, lane, nonce, min_settle_height) ==
    LET pch == from_str(payment_channel_address)
    IN  IF IsErr(pch) THEN pch ELSE
    LET amount == parse_bytes(amount_string)
    IN  IF IsErr(amount) THEN Err("`amount` couldn't be parsed.") ELSE
        Ok(base64_encode(to_vec(
            [channel_addr |-> pch.val,
             time_lock_min |-> time_lock_min,
             time_lock_max |-> time_lock_max,
             secret_pre_image |-> <<>>,
             extra |-> "None",
             lane |-> lane,
             nonce |-> nonce,
             amount |-> amount.val,
             min_settle_height |-> min_settle_height,
             merges |-> <<>>,
             signature |-> NoSignature])))

sign_voucher(voucher_string, key) ==
    LET decoded_voucher == base64_decode(voucher_string)
    IN  IF IsErr(decoded_voucher) THEN decoded_voucher ELSE
    LET v == from_slice(decoded_voucher.val)
    IN  IF IsErr(v) THEN v ELSE
    LET secret_key == SecretKeyParse(key)
    IN  IF IsErr(secret_key) THEN secret_key ELSE
    LET digest == get_digest_voucher(voucher_signing_bytes(v.val))
        sig == SecpSignRS(digest, secret_key.val)
                   \o <<SecpSignRecId(digest, secret_key.val)>>
    IN  Ok(base64_encode(to_vec(
            [v.val EXCEPT !.signature = new_signature("Secp256k1", sig)])))

SignerNetworkDefault(address) == "Testnet"
\* signer.set_network(address.network())
SignerNetwork(address) == address.network

\* the dispatch on the signer address's protocol, for a signature present
VerifyForProtocol(sig, address, digest, o) ==
    CASE address.protocol = "Secp256k1" ->
            LET rs == SliceRS(sig.bytes)
            IN  IF ~IsOk(rs) THEN rs ELSE
            LET v == IndexRecId(sig.bytes)
            IN  IF ~IsOk(v) THEN v ELSE
            LET recovery_id == RecoveryIdParse(v.val, o)
            IN  IF IsErr(recovery_id) THEN recovery_id ELSE
            LET public_key == SecpRecover(digest, rs.val, recovery_id.val, o)
            IN  IF IsErr(public_key) THEN public_key ELSE
            LET signer == set_network(new_secp256k1(public_key.val), SignerNetwork(address))
            IN  IF to_string(signer) # to_string(address)
                THEN Err("Address recovered doesn't match address given")
                ELSE Ok(SecpVerify(digest, rs.val, public_key.val))
      [] address.protocol = "BLS" ->
            LET pk == BLSPublicKeyFromBytes(address.payload, o)
            IN  IF IsErr(pk) THEN pk ELSE
            LET bls_sig == BLSSignatureFromBytes(sig.bytes, o)
            IN  IF IsErr(bls_sig) THEN bls_sig ELSE
                Ok(BLSVerify(pk.val, bls_sig.val, digest))
      [] OTHER -> Err("Address should BLS or Secp256k1.")

MatchProtocolFirst(sig, address, digest, o) ==
    IF address.protocol \notin {"Secp256k1", "BLS"}
    THEN Err("Address should BLS or Secp256k1.")
    ELSE IF sig.sig_type = "None" THEN Err("Voucher not signed.")
    ELSE VerifyForProtocol(sig, address, digest, o)
\* match &signed_voucher.signature { Some(signature) => ..., None => ... }
MatchSignature(sig, address, digest, o) ==
    IF sig.sig_type = "None" THEN Err("Voucher not signed.")
    ELSE VerifyForProtocol(sig, address, digest, o)

verify_voucher_signature(voucher_base64_string, signer_string, o) ==
    LET decoded_voucher == base64_decode(voucher_base64_string)
    IN  IF IsErr(decoded_voucher) THEN decoded_voucher ELSE
    LET signed_voucher == from_slice(decoded_voucher.val)
    IN  IF IsErr(signed_voucher) THEN signed_voucher ELSE
    LET address == from_str(signer_string)
    IN  IF IsErr(address) THEN address ELSE
    LET digest == get_digest_voucher(voucher_signing_bytes(signed_voucher.val))
    IN  MatchSignature(signed_voucher.val.signature, address.val, digest, o)

----------------------------------------------------------------------------
(* The caller of the voucher protocol: it creates a voucher, signs it some *)
(* number of times and verifies it against a signer address.               *)

ChannelAddresses ==
    {to_string(set_network(new_id(1), n)) : n \in Networks}
        \cup {[prefix |-> "x", protocol |-> "ID", payload |-> <<>>]}
AmountStrings == {<<"0">>, <<"1", "0">>, <<"-", "5">>, <<"+", "7">>, <<"1", "x">>, <<>>}
SignerAddresses ==
    {to_string(a) : a \in FromAddresses} \cup {to_string(new_actor(1))}

InitVoucher ==
    /\ IdleVoucher
    /\ IdleSign
    /\ IdleParams
    /\ IdleAgg
    /\ private_key = 0
    /\ result = Idle
    /\ pc = "start"

CreateVoucher ==
    /\ pc = "start"
    /\ \E a \in ChannelAddresses, amount \in AmountStrings,
          lane \in 0..MaxLane, nonce \in 0..MaxNonce :
          LET created == create_voucher(a, 0, 0, amount, lane, nonce, 0)
          IN  /\ voucher_args' = VoucherArgs(a, 0, 0, amount, lane, nonce, 0)
              /\ IF IsOk(created)
                 THEN voucher' = created.val /\ result' = Idle /\ pc' = "created"
                 ELSE voucher' = voucher /\ result' = created /\ pc' = "create_failed"
    /\ UNCHANGED <<signVars, paramVars, aggVars, address_signer, signings, private_key>>

SignVoucher ==
    /\ pc \in {"created", "signed"}
    /\ signings < MaxSignings
    /\ \E k \in Keys :
          /\ voucher' = sign_voucher(voucher, k).val
          /\ private_key' = k
    /\ signings' = signings + 1
    /\ pc' = "signed"
    /\ UNCHANGED <<signVars, paramVars, aggVars, voucher_args, address_signer, result>>

VerifyVoucherSignature ==
    /\ pc \in {"created", "signed"}
    /\ \E a \in SignerAddresses, o \in Oracle :
          /\ address_signer' = a
          /\ result' = verify_voucher_signature(voucher, a, o)
    /\ pc' = "verified"
    /\ UNCHANGED <<signVars, paramVars, aggVars, voucher, voucher_args, signings, private_key>>

NextVoucher ==
    \/ CreateVoucher
    \/ SignVoucher
    \/ VerifyVoucherSignature

SpecVoucher == InitVoucher /\ [][NextVoucher]_vars

----------------------------------------------------------------------------
(* Claims on the voucher protocol (SpecVoucher) *)

AddressMismatch == "Address recovered doesn't match address given"
\* the textual secp256k1 addresses of a key, on the two networks
KeyAddresses(k) == {to_string(key_recover(k, t).val) : t \in BOOLEAN}
\* the textual addresses that have nothing to do with a key
Unrelated(a, k) ==
    a \notin KeyAddresses(k) \cup {to_string(key_recover_bls(k, t).val) : t \in BOOLEAN}
VerifiedSigned == pc = "verified" /\ signings > 0

C8_VoucherNotSigned ==
    (pc = "verified" /\ signings = 0) =>
        (IsErr(result) /\ result.err = "Voucher not signed.")

C8_Witness ==
    /\ pc = "verified" /\ signings = 0
    /\ address_signer.protocol = "Actor"
    /\ IsErr(result) /\ result.err = "Voucher not signed."

\* the voucher held in the encoded text
DecodedVoucher == from_slice(base64_decode(voucher).val).val

\* C12: every voucher create_voucher returns is unsigned, has an empty merge
\* list and no secret pre-image, and its amount is a non-negative integer, for
\* every amount string given; the other fields equal the arguments.
C12_CreatedVoucher ==
    pc = "created" =>
        /\ DecodedVoucher.signature = NoSignature
        /\ DecodedVoucher.merges = <<>>
        /\ DecodedVoucher.secret_pre_image = <<>>
        /\ DecodedVoucher.amount >= 0
        /\ to_bytes(DecodedVoucher.channel_addr)
              = to_bytes(from_str(voucher_args.payment_channel_address).val)
        /\ DecodedVoucher.time_lock_min = voucher_args.time_lock_min
        /\ DecodedVoucher.time_lock_max = voucher_args.time_lock_max
        /\ DecodedVoucher.lane = voucher_args.lane
        /\ DecodedVoucher.nonce = voucher_args.nonce
        /\ DecodedVoucher.min_settle_height = voucher_args.min_settle_height

\* what holds of a created voucher: everything above but the sign of the
\* amount, which is the value of the amount string, negative ones included
C12_CreatedVoucherFields ==
    pc = "created" =>
        /\ DecodedVoucher.signature = NoSignature
        /\ DecodedVoucher.merges = <<>>
        /\ DecodedVoucher.secret_pre_image = <<>>
        /\ DecodedVoucher.amount = parse_bytes(voucher_args.amount).val
        /\ DecodedVoucher.lane = voucher_args.lane
        /\ DecodedVoucher.nonce = voucher_args.nonce

C12_NegativeAmount ==
    /\ pc = "created"
    /\ voucher_args.amount = <<"-", "5">>
    /\ DecodedVoucher.amount = -5

\* the unsigned voucher create_voucher returned for the arguments
OriginalVoucher ==
    create_voucher(voucher_args.payment_channel_address, voucher_args.time_lock_min,
                   voucher_args.time_lock_max, voucher_args.amount, voucher_args.lane,
                   voucher_args.nonce, voucher_args.min_settle_height).val

\* C15: sign_voucher changes only the signature field and signs over bytes
\* that exclude any existing signature.  After any sequence of sign_voucher
\* calls with keys k1..kn the voucher is sign_voucher(the original unsigned
\* voucher, kn): signing again with the same key changes nothing, the last
\* signer replaces the earlier ones, and verification against the secp256k1
\* address of kn returns true.
C15_LastSignerWins ==
    signings > 0 =>
        /\ voucher = sign_voucher(OriginalVoucher, private_key).val
        /\ sign_voucher(voucher, private_key).val = voucher
        /\ [DecodedVoucher EXCEPT !.signature = NoSignature]
              = from_slice(base64_decode(OriginalVoucher).val).val
        /\ DecodedVoucher.signature.sig_type = "Secp256k1"
        /\ \A a \in KeyAddresses(private_key), o \in Oracle :
              IsOkTrue(verify_voucher_signature(voucher, a, o))
        /\ (pc = "verified" /\ address_signer \in KeyAddresses(private_key)) =>
              IsOkTrue(result)

C15_Witness ==
    /\ signings = MaxSignings
    /\ pc = "verified"
    /\ address_signer \in KeyAddresses(private_key)
    /\ voucher = sign_voucher(OriginalVoucher, private_key).val
    /\ IsOkTrue(result)

----------------------------------------------------------------------------
(* Claims on the order of the secp256k1 verification (SpecSign) *)

\* the textual address verify_secp256k1_signature derives from the key that
\* signed, and the one it reads from the message: both rendered on Testnet
RecoveredFrom == to_string(set_network(new_secp256k1(SecpPublicKey(private_key)), "Testnet"))
DeclaredFrom == to_string(set_network(from_bytes(cbor.from).val, "Testnet"))
SecpVerified == pc = "verified" /\ signature.sig_type = "Secp256k1" /\ tamper # "resize"
\* a voucher signed with the key, verified against the message's sender
VoucherAgainstSender(o) ==
    verify_voucher_signature(
        sign_voucher(create_voucher(to_string(new_id(1)), 0, 0, <<"0">>, 0, 0, 0).val,
                     private_key).val,
        to_string(message.from), o)

\* C13: secp256k1 verification in verify_signature compares the address of
\* the recovered key with the message's sender first.  When they differ the
\* result is Ok(false) and never an error; true is returned only when they
\* are equal, the validity check being made only then.  verify_voucher_signature
\* returns an error for the same key and address.
C13_MatchBeforeVerify ==
    SecpVerified =>
        /\ (tamper = "none" /\ RecoveredFrom # DeclaredFrom) =>
              /\ IsOkFalse(result)
              /\ \A o \in Oracle :
                    /\ IsErr(VoucherAgainstSender(o))
                    /\ VoucherAgainstSender(o).err
                          = "Address recovered doesn't match address given"
        /\ IsOkTrue(result) => (tamper = "none" /\ RecoveredFrom = DeclaredFrom)
        /\ IsErr(result) => result.err \in {"InvalidRecoveryId", "InvalidSignature"}

C13_Witness ==
    /\ SecpVerified
    /\ tamper = "none"
    /\ RecoveredFrom # DeclaredFrom
    /\ IsOkFalse(result)

----------------------------------------------------------------------------
(* Claims on signatures presented under the wrong scheme (SpecSign) *)

\* the scheme tag of the signature is not the protocol of the sender
TagMismatch ==
    /\ pc = "verified"
    /\ tamper \in {"message", "tag"}
    /\ signature.sig_type # cbor.from.protocol

\* C14 as stated: verify_signature never returns true when the scheme tag of
\* the signature differs from the protocol of the sender; a Secp256k1-tagged
\* signature against a sender of another protocol gives false, a BLS-tagged
\* signature against a sender of another protocol gives false or an error.
C14_AsStated ==
    TagMismatch =>
        /\ ~IsOkTrue(result)
        /\ signature.sig_type = "Secp256k1" => IsOkFalse(result)
        /\ signature.sig_type = "BLS" => (IsOkFalse(result) \/ IsErr(result))

\* C14 amended: verify_signature never returns true when the scheme tag of
\* the signature differs from the protocol of the sender.  A Secp256k1-tagged
\* signature gives false when it is a signature the secp256k1 signing path
\* produced, and false or the error of the primitive that decodes it (recovery
\* id, recovery) when its bytes are not; a BLS-tagged signature gives the
\* size error of decoding the sender's payload as a BLS public key.
C14_NoCrossSchemeTrue ==
    TagMismatch =>
        /\ ~IsOkTrue(result)
        /\ signature.sig_type = "Secp256k1" =>
              /\ \/ IsOkFalse(result)
                 \/ /\ IsErr(result)
                    /\ result.err \in {"InvalidRecoveryId", "InvalidSignature"}
              /\ tamper = "message" => IsOkFalse(result)
        /\ signature.sig_type = "BLS" =>
              /\ IsErr(result)
              /\ result.err = "BLSSizeMismatch"

C14_Witness ==
    /\ TagMismatch
    /\ tamper = "message"
    /\ signature.sig_type = "Secp256k1"
    /\ cbor.from.protocol = "BLS"
    /\ IsOkFalse(result)

----------------------------------------------------------------------------
(* Aggregate verifier *)

MaxMsgs == 2

\* bls_signatures::hash
bls_hash(bytes) == [g2 |-> bytes]
\* an aggregate signature is the sum of the signatures of its (key, hash)
\* pairs, whatever their order
BLSAggregate(pairs) == Fill(BLS_SIGNATURE_SIZE, Byte("g2", pairs, -1))
Distinct(seq) == \A i, j \in 1..Len(seq) : seq[i] = seq[j] => i = j
\* bls_signatures::verify: one pairing check of the signature against the
\* (public key, hash) pairs, index by index; no hashes, or two equal ones,
\* are refused
BLSAggregateVerify(sig, hs, keys) ==
    /\ Len(hs) > 0
    /\ Len(hs) = Len(keys)
    /\ Distinct(hs)
    /\ \A i \in 1..Len(keys) : keys[i].k # 0
    /\ \/ /\ sig.k = -1
          /\ sig.msg = {<<keys[i].k, hs[i]>> : i \in 1..Len(hs)}
       \/ /\ sig.k > 0
          /\ Len(hs) = 1
          /\ sig.k = keys[1].k
          /\ bls_hash(sig.msg) = hs[1]

extract_from_pub_key_from_message(cbor_message, o) ==
    LET msg == transaction_parse(cbor_message, TRUE)
    IN  IF IsErr(msg) THEN msg
        ELSE BLSPublicKeyFromBytes(msg.val.from.payload, o)

extract_bls_signing_bytes_from_message(cbor_message) ==
    LET msg == transaction_parse(cbor_message, TRUE)
    IN  IF IsErr(msg) THEN msg ELSE Ok(to_signing_bytes(msg.val))

\* Iterator::collect into a Result: the values, or the first error
Failed(results) == {i \in 1..Len(results) : IsErr(results[i])}
FirstFailure(results) == results[CHOOSE i \in Failed(results) : \A j \in Failed(results) : i <= j]
Values(results) == [i \in 1..Len(results) |-> results[i].val]
SkipFailures(results) ==
    LET ok == SelectSeq(results, IsOk)
    IN  Ok(Values(ok))
\* match tmp { Ok(public_keys) => public_keys, Err(_) => return Err(..) }
CollectPublicKeys(results) ==
    IF Failed(results) # {}
    THEN Err("Invalid public key extracted from message")
    ELSE Ok(Values(results))
CollectSigningBytes(results) ==
    IF Failed(results) # {}
    THEN Err("An invalid message was provided")
    ELSE Ok(Values(results))

NoHash == [g2 |-> [cid |-> [blake2b |-> EmptyCbor]]]
StoreInCompletionOrder(slots, done, i, h) == [slots EXCEPT ![Len(done) + 1] = h]
\* par_iter().map(..).collect::<Vec<_>>(): the worker of item i writes slot i
StoreHash(slots, done, i, h) == [slots EXCEPT ![i] = h]

----------------------------------------------------------------------------
(* verify_aggregated_signature: the sequential extraction, the parallel    *)
(* hashing (one worker step per message, in any order), the pairing check. *)

AggMessages ==
    {marshal_cbor([from |-> key_recover_bls(k, TRUE).val, sequence |-> 0]) : k \in Keys}
        \cup {marshal_cbor([from |-> key_recover(1, TRUE).val, sequence |-> 0]), EmptyCbor}
AggLists == UNION {[1..n -> AggMessages] : n \in 0..MaxMsgs}
IsBLSMessage(c) == c.sequence >= 0 /\ c.from.protocol = "BLS"
SignerOf(c) == IF IsBLSMessage(c) THEN c.from.payload[1].of[2] ELSE 0
HashOf(c) == bls_hash([cid |-> blake2b_256(c)])
\* the aggregate of the signatures the senders make of their messages, one
\* where each sender signed the next message instead, and a cut buffer
AggSignatures(list) ==
    { new_signature("BLS",
          BLSAggregate({<<SignerOf(list[i]), HashOf(list[i])>> : i \in 1..Len(list)})),
      new_signature("BLS",
          BLSAggregate({<<SignerOf(list[i]), HashOf(list[(i % Len(list)) + 1])>> :
                            i \in 1..Len(list)})),
      new_signature("BLS", Fill(BLS_SIGNATURE_SIZE - 1, PadByte)) }

InitAgg ==
    /\ cbor_messages \in AggLists
    /\ signature \in AggSignatures(cbor_messages)
    /\ message = [from |-> set_network(new_id(0), "Testnet"), sequence |-> 0]
    /\ cbor = EmptyCbor
    /\ tamper = "none"
    /\ pks = <<>>
    /\ signing_bytes = <<>>
    /\ hashes = <<>>
    /\ finished = <<>>
    /\ IdleParams
    /\ IdleVoucher
    /\ private_key = 0
    /\ result = Idle
    /\ pc = "start"

ExtractFromMessages ==
    /\ pc = "start"
    /\ \E o \in Oracle :
          LET sig == BLSSignatureFromBytes(signature.bytes, o)
              keys == CollectPublicKeys(
                          [i \in 1..Len(cbor_messages) |->
                              extract_from_pub_key_from_message(cbor_messages[i], o)])
              bytes == CollectSigningBytes(
                          [i \in 1..Len(cbor_messages) |->
                              extract_bls_signing_bytes_from_message(cbor_messages[i])])
              failure == IF IsErr(sig) THEN sig ELSE IF IsErr(keys) THEN keys ELSE bytes
          IN  IF IsErr(failure)
              THEN /\ result' = failure
                   /\ pc' = "failed"
                   /\ UNCHANGED <<pks, signing_bytes, hashes>>
              ELSE /\ pks' = keys.val
                   /\ signing_bytes' = bytes.val
                   /\ hashes' = [i \in 1..Len(cbor_messages) |-> NoHash]
                   /\ pc' = "hashing"
                   /\ result' = result
    /\ UNCHANGED <<signVars, paramVars, voucherVars, cbor_messages, finished, private_key>>

HashWorker ==
    /\ pc = "hashing"
    /\ \E i \in 1..Len(signing_bytes) :
          /\ \A j \in 1..Len(finished) : finished[j] # i
          /\ hashes' = StoreHash(hashes, finished, i, bls_hash(signing_bytes[i]))
          /\ finished' = Append(finished, i)
    /\ UNCHANGED <<signVars, paramVars, voucherVars, cbor_messages, pks, signing_bytes,
                   private_key, result, pc>>

PairingCheck ==
    /\ pc = "hashing"
    /\ Len(finished) = Len(signing_bytes)
    /\ \E o \in Oracle :
          result' = Ok(BLSAggregateVerify(BLSSignatureFromBytes(signature.bytes, o).val,
                                          hashes, pks))
    /\ pc' = "paired"
    /\ UNCHANGED <<signVars, paramVars, voucherVars, aggVars, private_key>>

NextAgg ==
    \/ ExtractFromMessages
    \/ HashWorker
    \/ PairingCheck

SpecAgg == InitAgg /\ [][NextAgg]_vars

----------------------------------------------------------------------------
(* Claims on the aggregate verifier (SpecAgg) *)

KeyResults ==
    [i \in 1..Len(cbor_messages) |->
        extract_from_pub_key_from_message(cbor_messages[i], "reject")]
BytesResults ==
    [i \in 1..Len(cbor_messages) |->
        extract_bls_signing_bytes_from_message(cbor_messages[i])]
SomeMessageFails == Failed(KeyResults) # {} \/ Failed(BytesResults) # {}
SignatureResult == BLSSignatureFromBytes(signature.bytes, "reject")
AggReturned == pc \in {"failed", "paired"}

C10_HashesByIndex ==
    /\ pc \in {"hashing", "paired"} =>
          \A j \in 1..Len(finished) :
              hashes[finished[j]] = HashOf(cbor_messages[finished[j]])
    /\ pc = "paired" =>
          /\ \A i \in 1..Len(cbor_messages) :
                /\ hashes[i] = HashOf(cbor_messages[i])
                /\ pks[i] = BLSPublicKey(SignerOf(cbor_messages[i]))
          /\ result = Ok(BLSAggregateVerify(SignatureResult.val,
                            [i \in 1..Len(cbor_messages) |-> HashOf(cbor_messages[i])],
                            [i \in 1..Len(cbor_messages) |->
                                BLSPublicKey(SignerOf(cbor_messages[i]))]))

C10_Witness ==
    /\ pc = "paired"
    /\ finished = <<2, 1>>
    /\ cbor_messages[1] # cbor_messages[2]
    /\ IsOkTrue(result)

====
